---- MODULE Spec2Model ----
(***************************************************************************)
(* A model of check_windows_containers.py: one run of main() is            *)
(* load_config, load_state, check_images (a loop over the configured       *)
(* repository entries, and inside it a loop over the tags to check), the    *)
(* change report and save_state.  Runs follow one another on the same       *)
(* persisted state document.                                                *)
(*                                                                         *)
(* Strings that the program inspects character by character (tag names and  *)
(* tag patterns) are sequences of one-character strings; strings it only    *)
(* compares (repository names, digests, timestamps) are TLA+ strings.       *)
(* A Python dict is a function from its keys to its values.                 *)
(***************************************************************************)
EXTENDS Naturals, Sequences, FiniteSets, TLC

(***************************************************************************)
(* Bounds of the model.                                                     *)
(***************************************************************************)
\* Number of consecutive runs of main() that are explored.
MaxRuns == 2

\* Longest list of patterns handed to expand_wildcard_tags on its own.
MaxPatterns == 2

(***************************************************************************)
(* Python values.                                                           *)
(***************************************************************************)
\* Python's None.
None == [sentinel |-> "None"]

\* The string "NOT_FOUND" that get_tag_info returns on HTTP 404.
NOT_FOUND == [sentinel |-> "NOT_FOUND"]

\* The key "not_found" of a repository's state dict.
NotFoundKey == <<"n", "o", "t", "_", "f", "o", "u", "n", "d">>

\* The empty dict {}.
EmptyDict == [k \in {} |-> None]

\* d[k] = v on a dict.
DictSet(d, k, v) == [x \in (DOMAIN d) \cup {k} |-> IF x = k THEN v ELSE d[x]]

\* d.get(k, default)
DictGet(d, k, default) == IF k \in DOMAIN d THEN d[k] ELSE default

\* A dict {"digest": ..., "last_modified": ...} as get_tag_info builds it.
IsTagInfo(v) == "digest" \in DOMAIN v

\* A Python list [x1, ..., xn] where the program may also hold None or a dict.
List(l) == [items |-> l]

IsList(v) == "items" \in DOMAIN v

\* A str, a number and a dict (JSON object) where the program tests the type
\* of a value.
Str(s) == [str |-> s]

Num(n) == [num |-> n]

Obj(d) == [obj |-> d]

IsStr(v) == "str" \in DOMAIN v

IsObj(v) == "obj" \in DOMAIN v

\* Python truthiness of the values that reach an `if` or a `not`: None, the
\* empty list, the empty string, zero and the empty dict are false; every
\* other value is true (the string "NOT_FOUND" and a two-key dict among them).
Truthy(v) ==
  IF v = None THEN FALSE
  ELSE IF IsList(v) THEN v.items # <<>>
  ELSE IF IsStr(v) THEN v.str # ""
  ELSE IF "num" \in DOMAIN v THEN v.num # 0
  ELSE IF IsObj(v) THEN DOMAIN v.obj # {}
  ELSE TRUE

\* The code points of the characters that occur in the model's strings.
Ord(c) ==
  CASE c = "*" -> 42 [] c = "1" -> 49 [] c = "2" -> 50 [] c = "?" -> 63
    [] c = "_" -> 95 [] c = "d" -> 100 [] c = "f" -> 102 [] c = "n" -> 110
    [] c = "o" -> 111 [] c = "t" -> 116 [] c = "u" -> 117 [] c = "v" -> 118
    [] c = "w" -> 119

\* s < t for Python strings (lexicographic by code point).
RECURSIVE StrLess(_, _)
StrLess(s, t) ==
  IF t = <<>> THEN FALSE
  ELSE IF s = <<>> THEN TRUE
  ELSE IF Head(s) = Head(t) THEN StrLess(Tail(s), Tail(t))
  ELSE Ord(Head(s)) < Ord(Head(t))

\* sorted(list(S)) for a set of strings.
RECURSIVE Sorted(_)
Sorted(S) ==
  IF S = {} THEN <<>>
  ELSE LET m == CHOOSE x \in S : \A y \in S \ {x} : StrLess(x, y)
       IN <<m>> \o Sorted(S \ {m})

\* set(l) for a list.
ToSet(l) == {l[i] : i \in 1..Len(l)}

\* The lists that list(S) can return for a set S: Python fixes no iteration
\* order for a set of strings (it depends on the process's hash seed).
ListsOf(S) ==
  {l \in [1..Cardinality(S) -> S] : ToSet(l) = S}

\* [x for x in l if P(x)]
RECURSIVE Filter(_, _)
Filter(l, keep) ==
  IF l = <<>> THEN <<>>
  ELSE (IF Head(l) \in keep THEN <<Head(l)>> ELSE <<>>) \o Filter(Tail(l), keep)

(***************************************************************************)
(* fnmatch.fnmatch(name, pat) for patterns made of literal characters, '*'  *)
(* and '?' (on POSIX, where normcase is the identity).                      *)
(***************************************************************************)
RECURSIVE FnMatchFrom(_, _, _, _)
FnMatchFrom(name, pat, i, j) ==
  IF j > Len(pat) THEN i > Len(name)
  ELSE IF pat[j] = "*"
    THEN \/ FnMatchFrom(name, pat, i, j + 1)
         \/ (i <= Len(name) /\ FnMatchFrom(name, pat, i + 1, j))
  ELSE /\ i <= Len(name)
       /\ (pat[j] = "?" \/ pat[j] = name[i])
       /\ FnMatchFrom(name, pat, i + 1, j + 1)

fnmatch(name, pat) == FnMatchFrom(name, pat, 1, 1)

\* "*" in pat or "?" in pat
HasWildcard(pat) == \E j \in 1..Len(pat) : pat[j] \in {"*", "?"}

\* Selected in which the test `pat in available_tags` of line 77 is missing.
Selected_KeepsUnlisted(available_tags, patterns) ==
  UNION {IF HasWildcard(patterns[p])
           THEN {t \in ToSet(available_tags) : fnmatch(t, patterns[p])}
           ELSE {patterns[p]}
         : p \in 1..Len(patterns)}

\* The set `selected` that expand_wildcard_tags builds for non-empty patterns.
Selected(available_tags, patterns) ==
  UNION {IF HasWildcard(patterns[p])
           THEN {t \in ToSet(available_tags) : fnmatch(t, patterns[p])}
           ELSE IF patterns[p] \in ToSet(available_tags) THEN {patterns[p]} ELSE {}
         : p \in 1..Len(patterns)}

\* expand_wildcard_tags(available_tags, patterns), patterns being None or a
\* List: the lists it can return (available_tags itself for absent or empty
\* patterns, every ordering of the selected set otherwise).
expand_wildcard_tags(available_tags, patterns) ==
  IF ~Truthy(patterns) THEN {available_tags}
  ELSE ListsOf(Selected(available_tags, patterns.items))

(***************************************************************************)
(* load_config.  The configuration file is missing, is not JSON, or holds a *)
(* JSON value.                                                              *)
(***************************************************************************)
MissingFile == [file |-> "missing"]

InvalidJson == [file |-> "invalid_json"]

Json(v) == [file |-> "json", data |-> v]

\* What a call returns: a value, or the exception it raises.
Return(v) == [raised |-> FALSE, value |-> v]

Raise(e) == [raised |-> TRUE, error |-> e]

\* NormalizeEntry in which an object entry loses its "tags".
NormalizeEntry_NoTags(entry) ==
  IF IsStr(entry) THEN Return([name |-> entry.str, tags |-> None])
  ELSE IF IsObj(entry) /\ "name" \in DOMAIN entry.obj
    THEN Return([name |-> entry.obj["name"].str, tags |-> None])
  ELSE Raise("ValueError")

\* The loop body of load_config for one entry (lines 15-20).
NormalizeEntry(entry) ==
  IF IsStr(entry) THEN Return([name |-> entry.str, tags |-> None])
  ELSE IF IsObj(entry) /\ "name" \in DOMAIN entry.obj
    THEN Return([name |-> entry.obj["name"].str,
                 tags |-> DictGet(entry.obj, "tags", None)])
  ELSE Raise("ValueError")

\* load_config without the `not repos` test of line 11: an empty "repos" list
\* is accepted.
load_config_AcceptsEmpty(config_file) ==
  IF config_file = MissingFile THEN Raise("FileNotFoundError")
  ELSE IF config_file = InvalidJson THEN Raise("JSONDecodeError")
  ELSE IF ~IsObj(config_file.data) THEN Raise("AttributeError")
  ELSE LET repos == DictGet(config_file.data.obj, "repos", None)
       IN IF ~IsList(repos) THEN Raise("ValueError")
          ELSE LET normalized ==
                     [i \in 1..Len(repos.items) |-> NormalizeEntry(repos.items[i])]
               IN IF \E i \in 1..Len(normalized) : normalized[i].raised
                    THEN Raise("ValueError")
                    ELSE Return([i \in 1..Len(normalized) |-> normalized[i].value])

load_config(config_file) ==
  IF config_file = MissingFile THEN Raise("FileNotFoundError")
  ELSE IF config_file = InvalidJson THEN Raise("JSONDecodeError")
  ELSE IF ~IsObj(config_file.data) THEN Raise("AttributeError")
  ELSE LET repos == DictGet(config_file.data.obj, "repos", None)
       IN IF ~Truthy(repos) \/ ~IsList(repos) THEN Raise("ValueError")
          ELSE LET normalized ==
                     [i \in 1..Len(repos.items) |-> NormalizeEntry(repos.items[i])]
               IN IF \E i \in 1..Len(normalized) : normalized[i].raised
                    THEN Raise("ValueError")
                    ELSE Return([i \in 1..Len(normalized) |-> normalized[i].value])

(***************************************************************************)
(* The registry (mcr.microsoft.com) as the program sees it.                 *)
(***************************************************************************)
V1 == <<"v", "1">>

V2 == <<"v", "2">>

\* Repository names, and the tags each repository can carry upstream.  A tag
\* name is any string the registry accepts; "not_found" is one of them.
RepoNames == {"A", "B"}

RegistryTags(repo) == IF repo = "A" THEN {V1, V2, NotFoundKey} ELSE {}

\* The TagInfo dicts a manifest request can produce.
TagInfos ==
  {[digest |-> "d1", last_modified |-> "m1"],
   [digest |-> "d1", last_modified |-> "m2"],
   [digest |-> "d2", last_modified |-> "m2"]}

\* Responses to GET /v2/<repo>/tags/list: a JSON body with a "tags" list, or
\* a failure: an HTTP error status (raise_for_status), an exception of
\* requests.get (timeout, connection error), a body that is no JSON (resp.json).
TagsResponses(repo) ==
  {[ok |-> FALSE, error |-> e] : e \in {"http_error", "timeout", "not_json"}} \cup
  {[ok |-> TRUE, tags |-> Sorted(S)] : S \in SUBSET RegistryTags(repo)}

\* get_tags: the list of the body, [] on any failure.
get_tags(resp) == IF resp.ok THEN resp.tags ELSE <<>>

\* Responses to GET /v2/<repo>/manifests/<tag>: success with the two headers,
\* HTTP 404, another HTTP error status, or an exception of requests.get
\* (timeout, connection error).
ManifestResponses ==
  {[status |-> "200", headers |-> i] : i \in TagInfos} \cup
  {[status |-> "404"], [status |-> "500"], [status |-> "timeout"]}

\* No manifest request has been made.
NoResponse == [status |-> "none"]

\* get_tag_info in which every HTTP error counts as a 404.
get_tag_info_HttpErrorNotFound(resp) ==
  IF resp.status = "200" THEN resp.headers
  ELSE IF resp.status \in {"404", "500"} THEN NOT_FOUND
  ELSE None

\* get_tag_info: the two headers on success, "NOT_FOUND" on HTTP 404, None on
\* any other HTTP error and on any other exception.
get_tag_info(resp) ==
  IF resp.status = "200" THEN resp.headers
  ELSE IF resp.status = "404" THEN NOT_FOUND
  ELSE None

(***************************************************************************)
(* check_images, one step at a time.                                        *)
(***************************************************************************)
\* A change event (the code formats it into a line of text).
NewTag(repo_name, tag, info) ==
  [kind |-> "NEW TAG", repo |-> repo_name, tag |-> tag, digest |-> info.digest]

UpdatedDigest(repo_name, tag, info, old_tag) ==
  [kind |-> "UPDATED DIGEST", repo |-> repo_name, tag |-> tag,
   digest |-> info.digest, was |-> old_tag.digest]

\* Line 134: the tags previously found to be 404.
PriorNotFound(repo_state) == ToSet(DictGet(repo_state, NotFoundKey, List(<<>>)).items)

\* Line 136: the lists tags_to_check can be before the not_found filter.
SelectedLists(available_tags, specified_tags) ==
  IF Truthy(specified_tags)
    THEN expand_wildcard_tags(available_tags, specified_tags)
    ELSE {available_tags}

\* Line 137: [t for t in tags_to_check if t not in not_found]
TagsToCheck(selected, not_found) == Filter(selected, ToSet(selected) \ not_found)

\* CopyExceptNotFound that starts the new state of the repository empty.
CopyExceptNotFound_Empty(repo_state) == EmptyDict

\* Line 139: the old state of the repository except "not_found".
CopyExceptNotFound(repo_state) ==
  [k \in (DOMAIN repo_state) \ {NotFoundKey} |-> repo_state[k]]

\* TagStep in which a tag whose fetch returned "NOT_FOUND" also loses its key
\* in the new state of the repository.
TagStep_NotFoundDeletes(repo_name, tag, old_tag, info, nrs, nnf, upd) ==
  IF Truthy(info) /\ info # NOT_FOUND
    THEN IF ~Truthy(old_tag)
           THEN Return([new_repo_state |-> DictSet(nrs, tag, info),
                        new_not_found |-> nnf \ {tag},
                        updates |-> Append(upd, NewTag(repo_name, tag, info))])
         ELSE IF ~IsTagInfo(old_tag) THEN Raise("AttributeError")
         ELSE IF info.digest # old_tag.digest
           THEN Return([new_repo_state |-> DictSet(nrs, tag, info),
                        new_not_found |-> nnf \ {tag},
                        updates |-> Append(upd, UpdatedDigest(repo_name, tag, info, old_tag))])
         ELSE Return([new_repo_state |-> DictSet(nrs, tag, info),
                      new_not_found |-> nnf \ {tag},
                      updates |-> upd])
  ELSE IF info = NOT_FOUND
    THEN Return([new_repo_state |-> [k \in (DOMAIN nrs) \ {tag} |-> nrs[k]],
                 new_not_found |-> nnf \cup {tag},
                 updates |-> upd])
  ELSE Return([new_repo_state |-> nrs, new_not_found |-> nnf, updates |-> upd])

\* TagStep in which a tag whose fetch returned None is recorded in not_found
\* like a tag whose fetch returned "NOT_FOUND".
TagStep_UnknownIsNotFound(repo_name, tag, old_tag, info, nrs, nnf, upd) ==
  IF Truthy(info) /\ info # NOT_FOUND
    THEN IF ~Truthy(old_tag)
           THEN Return([new_repo_state |-> DictSet(nrs, tag, info),
                        new_not_found |-> nnf \ {tag},
                        updates |-> Append(upd, NewTag(repo_name, tag, info))])
         ELSE IF ~IsTagInfo(old_tag) THEN Raise("AttributeError")
         ELSE IF info.digest # old_tag.digest
           THEN Return([new_repo_state |-> DictSet(nrs, tag, info),
                        new_not_found |-> nnf \ {tag},
                        updates |-> Append(upd, UpdatedDigest(repo_name, tag, info, old_tag))])
         ELSE Return([new_repo_state |-> DictSet(nrs, tag, info),
                      new_not_found |-> nnf \ {tag},
                      updates |-> upd])
  ELSE Return([new_repo_state |-> nrs, new_not_found |-> nnf \cup {tag},
               updates |-> upd])

\* Lines 144-160: the body of the tag loop for one tag, given what
\* get_tag_info returned.  old_tag.get fails on a value that is no dict.
TagStep(repo_name, tag, old_tag, info, nrs, nnf, upd) ==
  IF Truthy(info) /\ info # NOT_FOUND
    THEN IF ~Truthy(old_tag)
           THEN Return([new_repo_state |-> DictSet(nrs, tag, info),
                        new_not_found |-> nnf \ {tag},
                        updates |-> Append(upd, NewTag(repo_name, tag, info))])
         ELSE IF ~IsTagInfo(old_tag) THEN Raise("AttributeError")
         ELSE IF info.digest # old_tag.digest
           THEN Return([new_repo_state |-> DictSet(nrs, tag, info),
                        new_not_found |-> nnf \ {tag},
                        updates |-> Append(upd, UpdatedDigest(repo_name, tag, info, old_tag))])
         ELSE Return([new_repo_state |-> DictSet(nrs, tag, info),
                      new_not_found |-> nnf \ {tag},
                      updates |-> upd])
  ELSE IF info = NOT_FOUND
    THEN Return([new_repo_state |-> nrs, new_not_found |-> nnf \cup {tag},
                 updates |-> upd])
  ELSE Return([new_repo_state |-> nrs, new_not_found |-> nnf, updates |-> upd])

\* Prune without the filter of line 163: every tag stays in not_found.
PruneNothing(nnf, available_tags) == nnf

\* Line 163: drop from not_found the tags that are no longer listed.
Prune(nnf, available_tags) == {t \in nnf : t \in ToSet(available_tags)}

\* StoreRepo that stores no entry for a repository about which nothing is
\* known.
StoreRepo_SkipsEmpty(ns, repo_name, nrs, nnf) ==
  IF nrs = EmptyDict /\ nnf = {} THEN ns
  ELSE DictSet(ns, repo_name, DictSet(nrs, NotFoundKey, List(Sorted(nnf))))

\* Lines 165-166: the repository's entry of new_state.
StoreRepo(ns, repo_name, nrs, nnf) ==
  DictSet(ns, repo_name, DictSet(nrs, NotFoundKey, List(Sorted(nnf))))

(***************************************************************************)
(* load_state and save_state (check_windows_containers.py, lines 81-115).   *)
(* The persisted document is missing, holds a JSON dict, or holds bytes     *)
(* that are no JSON document (a file cut short).                            *)
(***************************************************************************)
Backends == {"local", "s3"}

\* load_state: the local backend parses the file if it exists and lets a
\* parse error propagate; the S3 backend returns {} for a missing key and for
\* every other error.
load_state(backend, state_file) ==
  IF state_file = MissingFile THEN Return(EmptyDict)
  ELSE IF state_file = InvalidJson
    THEN IF backend = "s3" THEN Return(EmptyDict) ELSE Raise("JSONDecodeError")
  ELSE Return(state_file.data)

\* save_state: what the write leaves behind, what save_state prints and
\* whether it raises.  A successful write replaces the document.  A failed
\* put_object leaves the object as it was and is caught and printed inside
\* save_state; a local file that cannot be opened is left as it was, one whose
\* write fails after open(.., "w") truncated it is left cut short, and both
\* exceptions reach main.
save_state_Quiet(backend, state_file, state, outcome) ==
  IF outcome = "ok"
    THEN [file |-> Json(state), raised |-> FALSE, printed |-> <<>>]
  ELSE IF backend = "s3"
    THEN [file |-> state_file, raised |-> FALSE, printed |-> <<>>]
  ELSE IF outcome = "open_fails"
    THEN [file |-> state_file, raised |-> TRUE, printed |-> <<>>]
  ELSE [file |-> InvalidJson, raised |-> TRUE, printed |-> <<>>]

save_state(backend, state_file, state, outcome) ==
  IF outcome = "ok"
    THEN [file |-> Json(state), raised |-> FALSE, printed |-> <<>>]
  ELSE IF backend = "s3"
    THEN [file |-> state_file, raised |-> FALSE,
          printed |-> <<"Error saving state to S3">>]
  ELSE IF outcome = "open_fails"
    THEN [file |-> state_file, raised |-> TRUE, printed |-> <<>>]
  ELSE [file |-> InvalidJson, raised |-> TRUE, printed |-> <<>>]

SaveOutcomes == {"ok", "open_fails", "write_fails"}

(***************************************************************************)
(* The configuration files of the model.                                    *)
(***************************************************************************)
Repos(entries) == Json(Obj([k \in {"repos"} |-> List(entries)]))

Entry(name, patterns) ==
  Obj([k \in {"name", "tags"} |-> IF k = "name" THEN Str(name) ELSE List(patterns)])

ValidConfigs ==
  {Repos(<<Str("A")>>),
   Repos(<<Entry("A", <<<<"v", "*">>>>), Str("B")>>),
   Repos(<<Entry("A", <<V1>>), Entry("A", <<V2>>)>>),
   Repos(<<Obj([k \in {"name"} |-> Str("B")])>>)}

InvalidConfigs ==
  {MissingFile,
   InvalidJson,
   Json(List(<<Str("A")>>)),
   Json(Obj(EmptyDict)),
   Repos(<<>>),
   Json(Obj([k \in {"repos"} |-> Str("A")])),
   Repos(<<Str("A"), Num(5)>>),
   Repos(<<Obj([k \in {"tags"} |-> List(<<V1>>)])>>)}

ConfigFiles == ValidConfigs \cup InvalidConfigs

(***************************************************************************)
(* The state of the program and of what it reads and writes.                *)
(***************************************************************************)
VARIABLES
  pc,              \* where main() is
  run,             \* number of invocations of main() so far
  backend,         \* STATE_BACKEND of the running process
  config_file,     \* the configuration file this run reads
  state_file,      \* the persisted state document
  repos,           \* main: the normalized configuration
  old_state,       \* main / check_images
  new_state,       \* check_images
  updates,         \* check_images
  idx,             \* check_images: position of repo_entry in repos
  available_tags,  \* check_images, per repository entry
  not_found,
  tags_to_check,
  pos,             \* position of tag in tags_to_check
  new_repo_state,
  new_not_found,
  listed,          \* the registry during this run: the answer to tags/list,
                   \* by repository contacted
  answers,         \* the registry during this run: what get_tag_info returns,
                   \* by <<repository, tag>>, for the tags the entries select
  queried,         \* the <<repository, tag>> get_tag_info was called for
  resp,            \* get_tag_info: the response to its latest manifest request
  calls,           \* the I/O operations this run has called
  printed,         \* the lines this run has printed
  save_failed,     \* save_state was called in this run and did not write
  prev             \* the previous run's registry, calls and events, when this
                   \* run repeats it on an unchanged registry: on the state
                   \* that run saved (repeat) or on the state it read (same)

vars == <<pc, run, backend, config_file, state_file, repos, old_state, new_state,
          updates, idx, available_tags, not_found, tags_to_check, pos,
          new_repo_state, new_not_found, listed, answers, queried, resp, calls,
          printed, save_failed, prev>>

loopVars == <<available_tags, not_found, tags_to_check, pos, new_repo_state,
              new_not_found>>

\* The locals of check_images before the first repository entry.
NoLoop ==
  /\ available_tags' = <<>>
  /\ not_found' = {}
  /\ tags_to_check' = <<>>
  /\ pos' = 0
  /\ new_repo_state' = EmptyDict
  /\ new_not_found' = {}

NoPrev == [repeat |-> FALSE, same |-> FALSE]

\* This run meets the registry of the previous run unchanged.
SameRegistry == prev.repeat \/ prev.same

Init ==
  /\ pc = "idle"
  /\ run = 0
  /\ backend = "local"
  /\ config_file = MissingFile
  /\ state_file = MissingFile
  /\ repos = <<>>
  /\ old_state = EmptyDict
  /\ new_state = EmptyDict
  /\ updates = <<>>
  /\ idx = 0
  /\ available_tags = <<>>
  /\ not_found = {}
  /\ tags_to_check = <<>>
  /\ pos = 0
  /\ new_repo_state = EmptyDict
  /\ new_not_found = {}
  /\ listed = EmptyDict
  /\ answers = EmptyDict
  /\ queried = {}
  /\ resp = NoResponse
  /\ calls = {}
  /\ printed = <<>>
  /\ save_failed = FALSE
  /\ prev = NoPrev

\* main() has returned or raised.
Ended == pc \in {"idle", "aborted", "crashed", "done"}

\* What a new invocation of main() starts from.
EnterMain ==
  /\ Ended
  /\ run < MaxRuns
  /\ run' = run + 1
  /\ old_state' = EmptyDict
  /\ new_state' = EmptyDict
  /\ updates' = <<>>
  /\ idx' = 0
  /\ NoLoop
  /\ listed' = EmptyDict
  /\ answers' = EmptyDict
  /\ queried' = {}
  /\ resp' = NoResponse
  /\ calls' = {}
  /\ save_failed' = FALSE
  /\ UNCHANGED state_file

\* main, lines 169-175: a new invocation reads the configuration; a failure
\* is printed and main returns.
LoadConfig ==
  /\ EnterMain
  /\ prev' = NoPrev
  /\ \E cf \in ConfigFiles, b \in Backends :
       LET r == load_config(cf)
       IN /\ config_file' = cf
          /\ backend' = b
          /\ IF r.raised
               THEN /\ pc' = "aborted"
                    /\ repos' = <<>>
                    /\ printed' = <<"Failed to load config">>
               ELSE /\ pc' = "load_state"
                    /\ repos' = r.value
                    /\ printed' = <<>>

\* The same, for an invocation that follows a completed run whose state was
\* saved, with the same configuration file and with the registry unchanged.
LoadConfigAgain ==
  /\ pc = "done"
  /\ state_file = Json(new_state)
  /\ EnterMain
  /\ prev' = [repeat |-> TRUE, same |-> FALSE, listed |-> listed,
              answers |-> answers, queried |-> queried, updates |-> updates]
  /\ pc' = "load_state"
  /\ printed' = <<>>
  /\ repos' = load_config(config_file).value
  /\ UNCHANGED <<config_file, backend>>

\* The same, for an invocation that follows a completed run whose save failed
\* and left the state document as that run had read it: the same
\* configuration file, the same old state and an unchanged registry.
LoadConfigSame ==
  /\ pc = "done"
  /\ save_failed
  /\ load_state(backend, state_file) = Return(old_state)
  /\ EnterMain
  /\ prev' = [repeat |-> FALSE, same |-> TRUE, listed |-> listed,
              answers |-> answers, queried |-> queried, updates |-> updates]
  /\ pc' = "load_state"
  /\ printed' = <<>>
  /\ repos' = load_config(config_file).value
  /\ UNCHANGED <<config_file, backend>>

\* main, line 177, and the entry of check_images (lines 123-124).
LoadState ==
  /\ pc = "load_state"
  /\ calls' = calls \cup {"load_state"}
  /\ LET r == load_state(backend, state_file)
     IN IF r.raised
          THEN /\ pc' = "crashed"
               /\ UNCHANGED <<old_state, idx>>
          ELSE /\ pc' = "check_images"
               /\ old_state' = r.value
               /\ idx' = 1
  /\ UNCHANGED <<run, backend, config_file, state_file, repos, new_state, updates,
                 loopVars, listed, answers, queried, resp, printed, save_failed,
                 prev>>

\* The values get_tag_info can return.
Results == {get_tag_info(response) : response \in ManifestResponses}

\* The registry's answers for the tags in S of repository repo_name that the
\* run has not asked about yet: within one run the registry gives one answer
\* per tag, and a run that repeats the previous one gets the same answers.
MoreAnswers(repo_name, S) ==
  {a \in [{<<repo_name, t>> : t \in S} \cup DOMAIN answers -> Results] :
     /\ \A k \in DOMAIN answers : a[k] = answers[k]
     /\ SameRegistry => \A k \in DOMAIN a \cap DOMAIN prev.answers : a[k] = prev.answers[k]}

\* check_images, lines 125-141: the next repository entry, up to the tag loop.
\* Within one run the registry gives one answer per repository.
GetTags ==
  /\ pc = "check_images"
  /\ idx <= Len(repos)
  /\ LET repo_name == repos[idx].name
         repo_state == DictGet(old_state, repo_name, EmptyDict)
     IN \E listing \in TagsResponses(repo_name) :
          /\ repo_name \in DOMAIN listed => listed[repo_name] = listing
          /\ (SameRegistry /\ repo_name \in DOMAIN prev.listed) => prev.listed[repo_name] = listing
          /\ listed' = DictSet(listed, repo_name, listing)
          /\ available_tags' = get_tags(listing)
          /\ not_found' = PriorNotFound(repo_state)
          /\ \E selected \in SelectedLists(get_tags(listing), repos[idx].tags) :
               /\ tags_to_check' = TagsToCheck(selected, PriorNotFound(repo_state))
               /\ answers' \in MoreAnswers(repo_name, ToSet(selected))
          /\ new_repo_state' = CopyExceptNotFound(repo_state)
          /\ new_not_found' = PriorNotFound(repo_state)
  /\ pos' = 1
  /\ pc' = "tag_loop"
  /\ calls' = calls \cup {"get_tags"}
  /\ UNCHANGED <<run, backend, config_file, state_file, repos, old_state, new_state,
                 updates, idx, queried, resp, printed, save_failed, prev>>

\* check_images, lines 143-160: one iteration of the tag loop.  An exception
\* leaves check_images and main.
CheckTag ==
  /\ pc = "tag_loop"
  /\ pos <= Len(tags_to_check)
  /\ LET repo_name == repos[idx].name
         repo_state == DictGet(old_state, repo_name, EmptyDict)
         tag == tags_to_check[pos]
         old_tag == DictGet(repo_state, tag, None)
         info == answers[<<repo_name, tag>>]
         r == TagStep(repo_name, tag, old_tag, info, new_repo_state,
                      new_not_found, updates)
     IN /\ \E response \in ManifestResponses :
             /\ get_tag_info(response) = info
             /\ resp' = response
        /\ queried' = queried \cup {<<repo_name, tag>>}
        /\ IF r.raised
             THEN /\ pc' = "crashed"
                  /\ UNCHANGED <<new_repo_state, new_not_found, updates, pos>>
             ELSE /\ pc' = "tag_loop"
                  /\ new_repo_state' = r.value.new_repo_state
                  /\ new_not_found' = r.value.new_not_found
                  /\ updates' = r.value.updates
                  /\ pos' = pos + 1
  /\ calls' = calls \cup {"get_tag_info"}
  /\ UNCHANGED <<run, backend, config_file, state_file, repos, old_state, new_state,
                 idx, available_tags, not_found, tags_to_check, listed, answers,
                 printed, save_failed, prev>>

\* check_images, lines 162-166: after the tag loop, prune not_found and store
\* the repository's new state.
FinishRepo ==
  /\ pc = "tag_loop"
  /\ pos > Len(tags_to_check)
  /\ new_not_found' = Prune(new_not_found, available_tags)
  /\ new_state' = StoreRepo(new_state, repos[idx].name, new_repo_state,
                            Prune(new_not_found, available_tags))
  /\ idx' = idx + 1
  /\ pc' = "check_images"
  /\ UNCHANGED <<run, backend, config_file, state_file, repos, old_state, updates,
                 available_tags, not_found, tags_to_check, pos, new_repo_state,
                 listed, answers, queried, resp, calls, printed, save_failed, prev>>

\* check_images line 167 and main lines 178-185: check_images returns and
\* main prints the change report.
Report ==
  /\ pc = "check_images"
  /\ idx > Len(repos)
  /\ printed' = IF updates # <<>> THEN <<"Changes detected:">> \o updates
                ELSE <<"No changes detected.">>
  /\ pc' = "save_state"
  /\ UNCHANGED <<run, backend, config_file, state_file, repos, old_state, new_state,
                 updates, idx, loopVars, listed, answers, queried, resp, calls,
                 save_failed, prev>>

\* main, lines 187-190: save_state, whose exception main prints.
SaveState ==
  /\ pc = "save_state"
  /\ \E outcome \in SaveOutcomes :
       LET r == save_state(backend, state_file, new_state, outcome)
       IN /\ state_file' = r.file
          /\ printed' = IF r.raised
                          THEN Append(printed \o r.printed, "Error saving state")
                          ELSE printed \o r.printed
          /\ save_failed' = (outcome # "ok")
  /\ calls' = calls \cup {"save_state"}
  /\ pc' = "done"
  /\ UNCHANGED <<run, backend, config_file, repos, old_state, new_state, updates,
                 idx, loopVars, listed, answers, queried, resp, prev>>

Next ==
  \/ LoadConfig
  \/ LoadConfigAgain
  \/ LoadConfigSame
  \/ LoadState
  \/ GetTags
  \/ CheckTag
  \/ FinishRepo
  \/ Report
  \/ SaveState

Spec == Init /\ [][Next]_vars

(***************************************************************************)
(* expand_wildcard_tags on its own: one call on a listing and a selector    *)
(* taken from the sets below.  The listing is available_tags, the selector  *)
(* is repos[1].tags and the returned list is tags_to_check.                 *)
(***************************************************************************)
W1 == <<"w", "1">>

\* The listings: every list without repetition of some of three tags.
ExpandListings == UNION {ListsOf(S) : S \in SUBSET {V1, V2, W1}}

\* The patterns: with '*', with '?', exact and listed, exact and never listed.
ExpandPatterns == {<<"v", "*">>, <<"?", "1">>, <<"*">>, V1, <<"w", "2">>}

\* The selectors: absent, empty, and every list of 1..MaxPatterns patterns.
ExpandSelectors ==
  {None, List(<<>>)} \cup
  {List(l) : l \in UNION {[1..n -> ExpandPatterns] : n \in 1..MaxPatterns}}

InitExpand ==
  /\ pc = "expand_call"
  /\ available_tags \in ExpandListings
  /\ repos \in {<<[name |-> "A", tags |-> sel]>> : sel \in ExpandSelectors}
  /\ run = 0
  /\ backend = "local"
  /\ config_file = MissingFile
  /\ state_file = MissingFile
  /\ old_state = EmptyDict
  /\ new_state = EmptyDict
  /\ updates = <<>>
  /\ idx = 1
  /\ not_found = {}
  /\ tags_to_check = <<>>
  /\ pos = 0
  /\ new_repo_state = EmptyDict
  /\ new_not_found = {}
  /\ listed = EmptyDict
  /\ answers = EmptyDict
  /\ queried = {}
  /\ resp = NoResponse
  /\ calls = {}
  /\ printed = <<>>
  /\ save_failed = FALSE
  /\ prev = NoPrev

\* The call returns one of the lists list(selected) can be.
Expand ==
  /\ pc = "expand_call"
  /\ tags_to_check' \in expand_wildcard_tags(available_tags, repos[idx].tags)
  /\ pc' = "expand_return"
  /\ UNCHANGED <<run, backend, config_file, state_file, repos, old_state, new_state,
                 updates, idx, available_tags, not_found, pos, new_repo_state,
                 new_not_found, listed, answers, queried, resp, calls, printed,
                 save_failed, prev>>

NextExpand == Expand

SpecExpand == InitExpand /\ [][NextExpand]_vars

(***************************************************************************)
(* Vocabulary of the properties.                                            *)
(***************************************************************************)
\* The tag is a key of the repository state that carries a TagInfo.
HasTagInfo(repo_state, tag) ==
  tag \in DOMAIN repo_state /\ IsTagInfo(repo_state[tag])

\* The TagInfo map of a repository state.
TagInfoMap(repo_state) ==
  [t \in {k \in DOMAIN repo_state : IsTagInfo(repo_state[k])} |-> repo_state[t]]

\* check_images has returned new_state and updates.
CheckDone == pc \in {"save_state", "done"}

\* The tag loop of the repository entry repos[idx - 1] has just been left:
\* the locals of check_images still hold that entry's values.
EntryDone == pc = "check_images" /\ idx > 1

EntryRepo == repos[idx - 1].name

EntryPrior == DictGet(old_state, EntryRepo, EmptyDict)

\* The tags the entry's selector picks from this run's listing.
EntrySelected ==
  ToSet(CHOOSE l \in SelectedLists(available_tags, repos[idx - 1].tags) : TRUE)

\* The change events of the run for a tag of a repository.
EventsFor(repo_name, tag) ==
  {i \in 1..Len(updates) : updates[i].repo = repo_name /\ updates[i].tag = tag}

(***************************************************************************)
(* C1.  After check_images, no tag of a repository both carries a TagInfo   *)
(* and is a member of not_found.                                            *)
(***************************************************************************)
C1_TagInfoOrNotFound ==
  CheckDone =>
    \A r \in DOMAIN new_state :
      \A t \in PriorNotFound(new_state[r]) : ~HasTagInfo(new_state[r], t)

(***************************************************************************)
(* C2.  Idempotence: a run that follows a completed and saved run, with the *)
(* same configuration and an unchanged registry, returns no change event.   *)
(***************************************************************************)
C2_Idempotent ==
  prev.repeat => updates = <<>> /\ pc # "crashed"

(***************************************************************************)
(* C3.  Reappearance: a tag of the prior not_found that is listed and       *)
(* selected and that the registry now resolves leaves not_found, gets a     *)
(* TagInfo and exactly one NEW event.                                       *)
(***************************************************************************)
C3_Reappearance ==
  EntryDone =>
    \A t \in not_found \cap EntrySelected :
      IsTagInfo(answers[<<EntryRepo, t>>]) =>
        /\ t \notin PriorNotFound(new_state[EntryRepo])
        /\ HasTagInfo(new_state[EntryRepo], t)
        /\ \E i \in 1..Len(updates) :
             /\ updates[i] = NewTag(EntryRepo, t, answers[<<EntryRepo, t>>])
             /\ EventsFor(EntryRepo, t) = {i}

(***************************************************************************)
(* C4.  Event classification: a call of get_tag_info that returns a TagInfo *)
(* appends exactly one NEW event if the tag has no prior TagInfo, exactly   *)
(* one UPDATED event if the prior digest differs, and nothing if it is      *)
(* equal; a call that returns NOT_FOUND or None appends nothing; no other   *)
(* step appends an event, so every event is about a queried tag.            *)
(***************************************************************************)
C4_Step ==
  LET repo_name == repos[idx].name
      repo_state == DictGet(old_state, repo_name, EmptyDict)
      tag == tags_to_check[pos]
      info == answers[<<repo_name, tag>>]
  IN IF pc = "tag_loop" /\ pos <= Len(tags_to_check)
       THEN IF ~IsTagInfo(info) THEN updates' = updates
            ELSE IF ~HasTagInfo(repo_state, tag)
              THEN updates' = Append(updates, NewTag(repo_name, tag, info))
            ELSE IF repo_state[tag].digest # info.digest
              THEN updates' = Append(updates,
                                     UpdatedDigest(repo_name, tag, info, repo_state[tag]))
            ELSE updates' = updates
       ELSE updates' = updates \/ updates' = <<>>

C4_EventClassification ==
  /\ [][C4_Step]_vars
  /\ [](\A i \in 1..Len(updates) : <<updates[i].repo, updates[i].tag>> \in queried)

(***************************************************************************)
(* C5.  After a run, every tag that was queried and resolved to a TagInfo   *)
(* is mapped by the repository's new state to the digest just fetched.      *)
(***************************************************************************)
C5_FetchedDigestStored ==
  CheckDone =>
    \A k \in queried :
      IsTagInfo(answers[k]) =>
        /\ HasTagInfo(new_state[k[1]], k[2])
        /\ new_state[k[1]][k[2]].digest = answers[k].digest

(***************************************************************************)
(* C6.  Not-found monotonicity: in a run that follows a saved run with the  *)
(* listing unchanged, a tag that returned NOT_FOUND in the previous run is  *)
(* not passed to get_tag_info, and it is in not_found after the run.        *)
(***************************************************************************)
C6_NotFoundMonotone ==
  prev.repeat =>
    \A k \in prev.queried :
      prev.answers[k] = NOT_FOUND =>
        /\ k \notin queried
        /\ CheckDone => k[2] \in PriorNotFound(new_state[k[1]])

(***************************************************************************)
(* C7.  Pruning: a tag of the prior not_found that is absent from this      *)
(* run's listing is absent from the new not_found, has no event and is not  *)
(* queried; the new not_found is a subset of the run's listing.             *)
(***************************************************************************)
C7_Pruning ==
  /\ EntryDone =>
       /\ \A t \in not_found \ ToSet(available_tags) :
            /\ t \notin PriorNotFound(new_state[EntryRepo])
            /\ EventsFor(EntryRepo, t) = {}
            /\ <<EntryRepo, t>> \notin queried
       /\ PriorNotFound(new_state[EntryRepo]) \subseteq ToSet(available_tags)
  /\ CheckDone =>
       \A r \in DOMAIN new_state :
         PriorNotFound(new_state[r]) \subseteq ToSet(get_tags(listed[r]))

\* An entry has finished whose prior not_found held a tag that is no longer
\* listed, in a listing that did not fail.
C7_Witness ==
  /\ EntryDone
  /\ listed[EntryRepo].ok
  /\ not_found \ ToSet(available_tags) # {}
  /\ PriorNotFound(new_state[EntryRepo]) # {}

(***************************************************************************)
(* C8.  Tag-list failure isolation: when the tag listing of a repository    *)
(* fails, the repository's new state has the TagInfo entries and the        *)
(* not_found set of its prior state, and the run has no event for it.       *)
(***************************************************************************)
C8_ListFailureIsolated ==
  (EntryDone /\ ~listed[EntryRepo].ok) =>
    /\ TagInfoMap(new_state[EntryRepo]) = TagInfoMap(EntryPrior)
    /\ PriorNotFound(new_state[EntryRepo]) = PriorNotFound(EntryPrior)
    /\ \A i \in 1..Len(updates) : updates[i].repo # EntryRepo

(***************************************************************************)
(* C9.  UNKNOWN is never cached: a tag whose get_tag_info returned None is  *)
(* not in not_found after the run, and the next run (fed this run's new     *)
(* state, tag still listed and selected) calls get_tag_info for it again.   *)
(***************************************************************************)
C9_UnknownRetried ==
  /\ CheckDone =>
       \A k \in queried :
         answers[k] = None => k[2] \notin PriorNotFound(new_state[k[1]])
  /\ (prev.repeat /\ pc \in {"crashed", "save_state", "done"}) =>
       \A k \in prev.queried : prev.answers[k] = None => k \in queried

(***************************************************************************)
(* C10.  Configuration errors abort before any other I/O: an invocation of  *)
(* main whose configuration file is missing, is no JSON, has a missing,     *)
(* empty or non-list "repos", or has an entry that is neither a string nor  *)
(* an object with "name", reports the failure and returns; it calls none of *)
(* load_state, get_tags, get_tag_info and save_state and the persisted      *)
(* state is as it was.                                                      *)
(***************************************************************************)
C10_Step ==
  /\ (run' = run + 1 /\ config_file' \in InvalidConfigs) =>
       /\ pc' = "aborted"
       /\ printed' = <<"Failed to load config">>
       /\ state_file' = state_file
  /\ pc = "aborted" => (run' = run + 1 \/ UNCHANGED vars)

C10_ConfigErrorAborts ==
  /\ [][C10_Step]_vars
  /\ [](pc = "aborted" => calls = {} /\ queried = {} /\ listed = EmptyDict)

\* main has returned on a configuration error while a state document of an
\* earlier run exists.
C10_Witness ==
  /\ pc = "aborted"
  /\ config_file \in InvalidConfigs
  /\ state_file \notin {MissingFile, InvalidJson}

(***************************************************************************)
(* C11.  Persistence failure is non-fatal: when save_state fails, main has  *)
(* already printed the whole change report (every change event, or "No      *)
(* changes detected."), the failure is reported after it, and main returns  *)
(* without an exception.                                                    *)
(***************************************************************************)
C11_Step ==
  (pc = "save_state" /\ save_failed') =>
    /\ pc' = "done"
    /\ printed = (IF updates # <<>> THEN <<"Changes detected:">> \o updates
                  ELSE <<"No changes detected.">>)
    /\ Len(printed') = Len(printed) + 1
    /\ SubSeq(printed', 1, Len(printed)) = printed
    /\ printed'[Len(printed')] \in {"Error saving state", "Error saving state to S3"}

C11_SaveFailureNonFatal == [][C11_Step]_vars

\* A run with change events has ended after a save to S3 that failed.
C11_Witness ==
  /\ pc = "done"
  /\ save_failed
  /\ backend = "s3"
  /\ updates # <<>>

(***************************************************************************)
(* C12.  get_tag_info returns one of three results and never raises: the    *)
(* TagInfo of the two headers on success, NOT_FOUND exactly when the        *)
(* registry answered 404, None on every other failure.  get_tags never      *)
(* raises and returns the empty list on every failure.                      *)
(***************************************************************************)
C12_Step ==
  /\ (pc = "tag_loop" /\ pos <= Len(tags_to_check)) =>
       LET info == answers[<<repos[idx].name, tags_to_check[pos]>>]
       IN /\ resp' \in ManifestResponses
          /\ resp'.status = "200" =>
               info = [digest |-> resp'.headers.digest,
                       last_modified |-> resp'.headers.last_modified]
          /\ resp'.status = "404" <=> info = NOT_FOUND
          /\ resp'.status \notin {"200", "404"} <=> info = None
  /\ (pc = "check_images" /\ idx <= Len(repos)) =>
       LET r == listed'[repos[idx].name]
       IN /\ pc' = "tag_loop"
          /\ r.ok => available_tags' = r.tags
          /\ ~r.ok => available_tags' = <<>>

C12_FetchClassification == [][C12_Step]_vars

\* A manifest request has ended in an HTTP error other than 404 and the
\* listing of a repository has failed.
C12_Witness ==
  /\ resp.status = "500"
  /\ \E r \in DOMAIN listed : ~listed[r].ok /\ listed[r].error = "http_error"
  /\ \E k \in queried : answers[k] = None

(***************************************************************************)
(* C13.  Tag selection: for a non-empty list of patterns the result of      *)
(* expand_wildcard_tags has no duplicates and holds exactly the listed tags *)
(* that match some wildcard pattern or equal some exact pattern, so it is a *)
(* subset of the listing and an exact pattern that is not listed is         *)
(* dropped; for absent or empty patterns the result is the listing.         *)
(***************************************************************************)
C13_TagSelection ==
  pc = "expand_return" =>
    LET patterns == repos[idx].tags
        listing == ToSet(available_tags)
    IN IF patterns = None \/ patterns.items = <<>>
         THEN tags_to_check = available_tags
         ELSE /\ Cardinality(ToSet(tags_to_check)) = Len(tags_to_check)
              /\ ToSet(tags_to_check) \subseteq listing
              /\ \A t \in listing :
                   t \in ToSet(tags_to_check) <=>
                     \E p \in 1..Len(patterns.items) :
                       IF HasWildcard(patterns.items[p])
                         THEN fnmatch(t, patterns.items[p])
                         ELSE t = patterns.items[p]
              /\ patterns.items = <<<<"v", "*">>>> =>
                   ToSet(tags_to_check) = listing \cap {V1, V2}
              /\ patterns.items = <<<<"?", "1">>>> =>
                   ToSet(tags_to_check) = listing \cap {V1, W1}
              /\ patterns.items = <<<<"w", "2">>, V1>> =>
                   ToSet(tags_to_check) = listing \cap {V1}

\* The call has returned a non-empty selection for a selector that holds a
\* wildcard pattern and an exact pattern that is not listed.
C13_Witness ==
  /\ pc = "expand_return"
  /\ repos[idx].tags = List(<<V1, <<"v", "*">>>>)
  /\ available_tags = <<W1, V2>>
  /\ tags_to_check = <<V2>>

(***************************************************************************)
(* C14.  As stated: after check_images no member of a repository's new      *)
(* not_found is a member of the run's listing for the repository.           *)
(***************************************************************************)
C14_ListedNeverNotFound ==
  EntryDone =>
    PriorNotFound(new_state[EntryRepo]) \cap ToSet(available_tags) = {}

(***************************************************************************)
(* C14, amended.  Absence is only recorded for listed tags that were        *)
(* queried and confirmed missing: every member of the new not_found is in   *)
(* the run's listing, and it was in the prior not_found or get_tag_info     *)
(* returned NOT_FOUND for it in this run.                                   *)
(***************************************************************************)
C14_NotFoundOnlyConfirmed ==
  EntryDone =>
    \A t \in PriorNotFound(new_state[EntryRepo]) :
      /\ t \in ToSet(available_tags)
      /\ \/ t \in not_found
         \/ /\ <<EntryRepo, t>> \in queried
            /\ answers[<<EntryRepo, t>>] = NOT_FOUND

\* An entry has finished with a listed tag newly in not_found, while another
\* tag of the entry returned None.
C14_Witness ==
  /\ EntryDone
  /\ \E t \in PriorNotFound(new_state[EntryRepo]) \ not_found :
       t \in ToSet(available_tags)
  /\ \E t \in ToSet(tags_to_check) : answers[<<EntryRepo, t>>] = None

(***************************************************************************)
(* C15.  load_config is order-preserving and 1:1: the list it returns for a *)
(* valid configuration is as long as the "repos" list, its i-th element is  *)
(* {name: s, tags: None} for a bare string s and {name, tags} for an        *)
(* object, and entries with equal names are neither merged nor dropped.     *)
(***************************************************************************)
C15_LoadConfigOneToOne ==
  (run >= 1 /\ pc # "aborted") =>
    LET entries == config_file.data.obj["repos"].items
    IN /\ Len(repos) = Len(entries)
       /\ \A i \in 1..Len(entries) :
            IF IsStr(entries[i])
              THEN repos[i] = [name |-> entries[i].str, tags |-> None]
              ELSE /\ repos[i].name = entries[i].obj["name"].str
                   /\ repos[i].tags =
                        (IF "tags" \in DOMAIN entries[i].obj
                           THEN entries[i].obj["tags"] ELSE None)
                   /\ DOMAIN repos[i] = {"name", "tags"}

\* load_config has returned a list with two entries of the same name and
\* different selectors.
C15_Witness ==
  /\ pc = "load_state"
  /\ Len(repos) = 2
  /\ repos[1].name = repos[2].name
  /\ repos[1].tags # repos[2].tags

(***************************************************************************)
(* C16.  All-or-nothing persistence: whatever happens in a run, save_state  *)
(* included, the persisted state document is afterwards the complete        *)
(* document it was before or the complete new state, never a document cut   *)
(* short.                                                                   *)
(***************************************************************************)
C16_Step ==
  \/ state_file' = state_file
  \/ state_file' = Json(new_state)

C16_AllOrNothing == [][C16_Step]_vars

(***************************************************************************)
(* C17.  A tag whose get_tag_info returned None is dropped from the run's   *)
(* output: in the repository's new state it is neither a key with a TagInfo *)
(* nor a member of not_found, also when it had a TagInfo in the prior       *)
(* state.                                                                   *)
(***************************************************************************)
C17_UnknownDropped ==
  EntryDone =>
    \A t \in ToSet(tags_to_check) :
      answers[<<EntryRepo, t>>] = None =>
        /\ ~HasTagInfo(new_state[EntryRepo], t)
        /\ t \notin PriorNotFound(new_state[EntryRepo])

(***************************************************************************)
(* C18.  Carry-forward: a tag that has a TagInfo in the prior state of a    *)
(* repository the run processes and that the entry does not select (the     *)
(* selector leaves it out, or it is no longer listed) has the same TagInfo  *)
(* in the repository's new state; after the run the same holds for the     *)
(* tags that no entry of the repository selected.                           *)
(***************************************************************************)
C18_CarryForward ==
  /\ EntryDone =>
       \A t \in DOMAIN EntryPrior :
         (IsTagInfo(EntryPrior[t]) /\ t \notin EntrySelected) =>
           /\ HasTagInfo(new_state[EntryRepo], t)
           /\ new_state[EntryRepo][t] = EntryPrior[t]
  /\ CheckDone =>
       \A r \in DOMAIN new_state :
         \A t \in DOMAIN DictGet(old_state, r, EmptyDict) :
           (/\ IsTagInfo(old_state[r][t])
            /\ \A i \in 1..Len(repos) :
                 repos[i].name = r =>
                   \A l \in SelectedLists(get_tags(listed[r]), repos[i].tags) :
                     t \notin ToSet(l))
           => (/\ HasTagInfo(new_state[r], t)
               /\ new_state[r][t] = old_state[r][t])

\* An entry has finished that evaluated one tag, with a change, and left
\* alone another tag that has a TagInfo in the prior state.
C18_Witness ==
  /\ EntryDone
  /\ \E t \in DOMAIN EntryPrior : IsTagInfo(EntryPrior[t]) /\ t \notin EntrySelected
  /\ \E i \in 1..Len(updates) :
       updates[i].repo = EntryRepo /\ updates[i].kind = "UPDATED DIGEST"

(***************************************************************************)
(* C19.  A queried tag whose fetched digest equals the prior digest keeps   *)
(* its prior TagInfo, digest and last_modified, in the new state, whatever  *)
(* last_modified was fetched.                                               *)
(***************************************************************************)
C19_SameDigestUnchanged ==
  EntryDone =>
    \A t \in ToSet(tags_to_check) :
      LET info == answers[<<EntryRepo, t>>]
      IN (/\ IsTagInfo(info)
          /\ HasTagInfo(EntryPrior, t)
          /\ info.digest = EntryPrior[t].digest)
         => new_state[EntryRepo][t] = EntryPrior[t]

(***************************************************************************)
(* C20.  Deterministic event order: an execution of check_images on the     *)
(* repos list, old_state, tag listings and fetch results of the previous    *)
(* execution returns the same events in the same order, pattern selectors   *)
(* included.                                                                *)
(***************************************************************************)
C20_DeterministicOrder ==
  (prev.same /\ CheckDone) => updates = prev.updates

(***************************************************************************)
(* C21.  Only configuration errors abort a run: once load_config has        *)
(* succeeded, main never ends with an exception, whatever fails while the   *)
(* prior state is loaded, tags are listed or manifests are fetched; when it *)
(* has returned it has called load_state, has processed every repository    *)
(* entry, has printed the report and has called save_state.                 *)
(***************************************************************************)
C21_OnlyConfigErrorsAbort ==
  /\ pc # "crashed"
  /\ pc = "done" =>
       /\ {"load_state", "get_tags", "save_state"} \subseteq calls
       /\ idx > Len(repos)
       /\ printed # <<>>

(***************************************************************************)
(* C22.  After check_images the keys of new_state are exactly the           *)
(* repository names of the configuration: every configured repository has   *)
(* an entry with a not_found list, also when its listing or every fetch     *)
(* failed, and a repository of old_state that is not configured has none.   *)
(***************************************************************************)
C22_NewStateKeys ==
  CheckDone =>
    /\ DOMAIN new_state = {repos[i].name : i \in 1..Len(repos)}
    /\ \A r \in DOMAIN new_state :
         /\ NotFoundKey \in DOMAIN new_state[r]
         /\ IsList(new_state[r][NotFoundKey])

\* check_images has returned for a configuration that leaves out a
\* repository of old_state and names one whose listing failed.
C22_Witness ==
  /\ CheckDone
  /\ (DOMAIN old_state) \ (DOMAIN new_state) # {}
  /\ \E r \in DOMAIN new_state : ~listed[r].ok

(***************************************************************************)
(* C23.  The TagInfo map of a repository never shrinks: a tag that has a    *)
(* TagInfo in the state a run starts from (the new state of the run before  *)
(* it) has a TagInfo in the new state of the run, if the repository is      *)
(* still configured: whatever the fetch returns, whether or not the listing *)
(* fails, the selector still selects the tag or the tag is still listed.    *)
(***************************************************************************)
C23_TagInfoNeverShrinks ==
  CheckDone =>
    \A r \in (DOMAIN old_state) \cap (DOMAIN new_state) :
      \A t \in DOMAIN old_state[r] :
        HasTagInfo(old_state[r], t) => HasTagInfo(new_state[r], t)

\* A run has ended in which a tag with a TagInfo returned NOT_FOUND, and one
\* in which such a tag is no longer listed.
C23_Witness ==
  /\ CheckDone
  /\ \E r \in (DOMAIN old_state) \cap (DOMAIN new_state) :
       \E t \in DOMAIN old_state[r] :
         /\ HasTagInfo(old_state[r], t)
         /\ \/ /\ <<r, t>> \in queried
               /\ answers[<<r, t>>] = NOT_FOUND
            \/ /\ listed[r].ok
               /\ t \notin ToSet(get_tags(listed[r]))

====
